---- MODULE Spec2Model ----
(***************************************************************************)
(* Sequential change detection on multi-temporal polarimetric SAR imagery  *)
(* (sar_seq_sav.py).  The module models                                    *)
(*   - main(): option state, first open, co-registration, the band check,  *)
(*     the populate phase of the p-value array, the change-map synthesis   *)
(*     pass and the four raster writes;                                    *)
(*   - PV(): the accumulation loop over the files of a sub-sequence and    *)
(*     the three determinants it forms before NaN replacement/clamping.    *)
(*                                                                         *)
(* numpy applies every statement of the synthesis pass element by element, *)
(* so a pixel's maps depend on that pixel's p-values alone; the maps are   *)
(* functions over the flat pixel indices of a raster with rows*cols = 1.   *)
(* p-values and the significance level are held in percent (0.01 -> 1).    *)
(* The value PV returns (a chi-square tail probability) is not computable  *)
(* in integer arithmetic; the populate step draws it from PVals.  The      *)
(* optional median filter maps one such raster to another and is covered   *)
(* by the same choice.                                                     *)
(*                                                                         *)
(* PV computes in float64/complex128.  On the integer inputs modelled here *)
(* sums, differences and products of the elements are exact; abs(x)**2 is  *)
(* not: it is the square of the rounded modulus.  A float64 value is held  *)
(* as <<I, d>>, standing for I + d * 2^-52, and every operation that can   *)
(* round rounds to the float64 grid (53-bit significand, ties to even).    *)
(***************************************************************************)
EXTENDS Integers, Sequences, FiniteSets, TLC

\* ------------------------------------------------------------------ bounds
\* largest number of images in the stack (k = len(fns))
MaxK == 3
\* largest run of files handed to PV in the accumulator specification
MaxT == 3
\* largest sum of the components of all matrices of a run (accumulator spec.)
MaxWeight == 4

\* flat pixel indices of the raster (rows*cols = 1)
Pixels == {0}
\* p-values a PV raster may hold, in percent
PVals == {0, 3, 10}
\* significance levels, in percent: the default 0.01 and -s 0.05
Sigs == {1, 5}
\* band counts the first image may report
BandCounts == {1, 4, 9, 3}
\* equivalent numbers of looks tried in the accumulator specification
Looks == {1, 2}

VARIABLES
    pc,            \* position in main()
    rc,            \* exit status of the process (meaningful when pc = "exit")
    k,             \* number of images (0 until the arguments are parsed)
    fns,           \* file list: sequence of [acq, reg]
    dims,          \* TRUE iff -d was given
    significance,  \* -s value (percent)
    bands,         \* RasterCount of the first image
    p,             \* matrix dimension
    subsets,       \* calls of subset() made
    registers,     \* calls of register() made
    reads,         \* input rasters opened so far (gdal.Open for reading)
    readError,     \* TRUE once an input raster could not be read
    diag,          \* diagnostic messages printed
    pvarray,       \* (k-1) x (k-1) array of p-value rasters
    nwrites,       \* number of assignments to each pvarray entry
    pvargs,        \* file slice handed to PV for each entry
    pvread,        \* pvarray entries read by the synthesis pass
    i, ell, j,     \* loop counters
    cmap, smap, fmap, bmap,
    outputs,       \* rasters created by driver.Create, with their bytes
    \* ---- PV()
    pvpc,          \* position in PV()
    pvp, pvn,      \* arguments p and n of PV
    todo,          \* files of fns not yet read by the loop
    acc,           \* running sums k, a, rho, xsi, b, zeta
    last,          \* k1, a1, rho1, xsi1, b1, zeta1 of the latest iteration
    rawprev,       \* history: sum of the matrices read before the latest one
    rawlast,       \* history: the latest matrix as read (not scaled)
    dets           \* detsumj, detsumj1, detj

mainvars == <<pc, rc, k, fns, dims, significance, bands, p, subsets, registers,
              reads, readError, diag, pvarray, nwrites, pvargs, pvread,
              i, ell, j, cmap, smap, fmap, bmap, outputs>>
pvvars == <<pvpc, pvp, pvn, todo, acc, last, rawprev, rawlast, dets>>
vars == <<mainvars, pvvars>>

\* ------------------------------------------------------------ numpy helpers
\* value held by an np.byte (int8) cell after assigning the integer v
ToInt8(v) == ((v + 128) % 256) - 128
\* byte written to a GDT_Byte band from an int8 cell
AsByte(v) == v % 256
\* range(lo, hi)
Range(lo, hi) == lo .. (hi - 1)
\* variant: the slice stops one element early (s[lo:hi-1])
PySliceShort(s, lo, hi) ==
    LET h == IF hi - 1 > Len(s) THEN Len(s) ELSE hi - 1
    IN  IF lo >= h THEN << >> ELSE [n \in 1..(h - lo) |-> s[lo + n]]
\* s[lo:hi] of a Python list (0-based), 0 <= lo
PySlice(s, lo, hi) ==
    LET h == IF hi > Len(s) THEN Len(s) ELSE hi
    IN  IF lo >= h THEN << >> ELSE [n \in 1..(h - lo) |-> s[lo + n]]


\* ------------------------------------------------------------------ main()
\* the file list after fns = args[0].split(','): acquisition n-1 at place n
InputFiles(kk) == [n \in 1..kk |-> [acq |-> n - 1, reg |-> FALSE]]
\* np.zeros((rows*cols))
ZeroMap == [px \in Pixels |-> 0]
\* np.zeros((rows*cols,k-1))
ZeroLayers(kk) == [px \in Pixels |-> [jj \in Range(0, kk - 1) |-> 0]]
\* np.memmap(...,mode='w+',shape=(k-1,k-1,rows*cols)): zero filled
ZeroArray(kk) ==
    [l \in Range(0, kk - 1) |-> [jj \in Range(0, kk - 1) |-> ZeroMap]]
NoArgs(kk) == [l \in Range(0, kk - 1) |-> [jj \in Range(0, kk - 1) |-> << >>]]
NoWrites(kk) == [l \in Range(0, kk - 1) |-> [jj \in Range(0, kk - 1) |-> 0]]

\* bands -> p; 0 stands for the else branch (no p is assigned)
Dimension(b) ==
    IF b = 9 THEN 3 ELSE IF b = 4 THEN 2 ELSE IF b = 1 THEN 1 ELSE 0

\* fns after the co-registration block: fn0 first, the registered images in
\* the order of args1
Registered(f) ==
    <<[acq |-> f[1].acq, reg |-> TRUE]>> \o
    [n \in 1..(Len(f) - 1) |-> [acq |-> f[n + 1].acq, reg |-> TRUE]]

\* for j in range(lo,k-1) nested in for lo in range(k-1): the counters after
\* the body ran at (lo, jj); lo = k-1 means both loops are finished
NextIdx(lo, jj, kk) ==
    IF jj + 1 < kk - 1 THEN <<lo, jj + 1>> ELSE <<lo + 1, lo + 1>>

\* variant: the comparison with the threshold is reversed (pv >= significance)
IdxReversed(pv, sig, cm, l) == {px \in Pixels : pv[px] >= sig /\ cm[px] = l}
\* variant: the threshold selects the p-values above it (pv > significance)
IdxAbove(pv, sig, cm, l) == {px \in Pixels : pv[px] > sig /\ cm[px] = l}
\* variant: the latch test accepts every pixel not yet past l (cmap <= ell)
IdxNoLatch(pv, sig, cm, l) == {px \in Pixels : pv[px] <= sig /\ cm[px] <= l}
\* np.where( (pv <= significance) & (cmap == ell) )
Idx(pv, sig, cm, l) == {px \in Pixels : pv[px] <= sig /\ cm[px] = l}

\* variant: idx1 is taken after cmap[idx] = j+1 was assigned
SynthUpdateLateIdx1(m, pv, sig, l, jj) ==
    LET idx  == {px \in Pixels : pv[px] <= sig /\ m.cmap[px] = l}
        cm2  == [px \in Pixels |->
                   IF px \in idx THEN ToInt8(jj + 1) ELSE m.cmap[px]]
        idx1 == {px \in Pixels : pv[px] <= sig /\ cm2[px] = 0}
    IN  [fmap |-> [px \in Pixels |->
                     IF px \in idx THEN ToInt8(m.fmap[px] + 1) ELSE m.fmap[px]],
         cmap |-> cm2,
         bmap |-> [px \in Pixels |->
                     IF px \in idx THEN [m.bmap[px] EXCEPT ![jj] = ToInt8(255)]
                                   ELSE m.bmap[px]],
         smap |-> [px \in Pixels |->
                     IF px \in idx1 THEN ToInt8(jj + 1) ELSE m.smap[px]]]
\* variant: fmap counts every significant entry, latched or not
SynthUpdateCountAll(m, pv, sig, l, jj) ==
    LET idx  == {px \in Pixels : pv[px] <= sig /\ m.cmap[px] = l}
        idx1 == {px \in Pixels : pv[px] <= sig /\ m.cmap[px] = 0}
        sigf == {px \in Pixels : pv[px] <= sig}
    IN  [fmap |-> [px \in Pixels |->
                     IF px \in sigf THEN ToInt8(m.fmap[px] + 1) ELSE m.fmap[px]],
         cmap |-> [px \in Pixels |->
                     IF px \in idx THEN ToInt8(jj + 1) ELSE m.cmap[px]],
         bmap |-> [px \in Pixels |->
                     IF px \in idx THEN [m.bmap[px] EXCEPT ![jj] = ToInt8(255)]
                                   ELSE m.bmap[px]],
         smap |-> [px \in Pixels |->
                     IF px \in idx1 THEN ToInt8(jj + 1) ELSE m.smap[px]]]
\* body of the synthesis loop at (l, jj) on the four maps
SynthUpdate(m, pv, sig, l, jj) ==
    LET idx  == Idx(pv, sig, m.cmap, l)
        idx1 == Idx(pv, sig, m.cmap, 0)
    IN  [fmap |-> [px \in Pixels |->
                     IF px \in idx THEN ToInt8(m.fmap[px] + 1) ELSE m.fmap[px]],
         cmap |-> [px \in Pixels |->
                     IF px \in idx THEN ToInt8(jj + 1) ELSE m.cmap[px]],
         bmap |-> [px \in Pixels |->
                     IF px \in idx THEN [m.bmap[px] EXCEPT ![jj] = ToInt8(255)]
                                   ELSE m.bmap[px]],
         smap |-> [px \in Pixels |->
                     IF px \in idx1 THEN ToInt8(jj + 1) ELSE m.smap[px]]]

Maps == [cmap |-> cmap, smap |-> smap, fmap |-> fmap, bmap |-> bmap]

\* main is entered: no option is parsed yet, significance has its default;
\* arrays that do not exist yet are shown empty or zero
Init ==
    /\ pc = "args" /\ rc = 0
    /\ k = 0
    /\ fns = << >>
    /\ dims = FALSE
    /\ significance = 1
    /\ bands = 0 /\ p = 0
    /\ subsets = 0 /\ registers = 0
    /\ reads = 0 /\ readError = FALSE
    /\ diag = {}
    /\ pvarray = ZeroArray(0) /\ nwrites = NoWrites(0) /\ pvargs = NoArgs(0)
    /\ pvread = {}
    /\ i = 0 /\ ell = 0 /\ j = 0
    /\ cmap = ZeroMap /\ smap = ZeroMap /\ fmap = ZeroMap
    /\ bmap = ZeroLayers(0)
    /\ outputs = << >>
    /\ pvpc = "idle" /\ pvp = 0 /\ pvn = 0 /\ todo = 0
    /\ acc = << >> /\ last = << >> /\ rawprev = << >> /\ rawlast = << >>
    /\ dets = << >>

\* lines 181-184: option -h: the usage text, then return from main
Help ==
    /\ pc = "args"
    /\ diag' = diag \cup {"usage"}
    /\ rc' = 0
    /\ pc' = "exit"
    /\ UNCHANGED <<k, fns, dims, significance, bands, p, subsets, registers,
                   reads, readError, pvarray, nwrites, pvargs, pvread,
                   i, ell, j, cmap, smap, fmap, bmap, outputs, pvvars>>

\* line 177: an option outside 'hmd:s:': getopt raises GetoptError, which
\* nothing catches
BadOption ==
    /\ pc = "args"
    /\ rc' = 1
    /\ pc' = "exit"
    /\ UNCHANGED <<k, fns, dims, significance, bands, p, subsets, registers,
                   reads, readError, diag, pvarray, nwrites, pvargs, pvread,
                   i, ell, j, cmap, smap, fmap, bmap, outputs, pvvars>>

\* lines 191-194: len(args) != 3
BadArgCount ==
    /\ pc = "args"
    /\ diag' = diag \cup {"Incorrect number of arguments", "usage"}
    /\ rc' = 1
    /\ pc' = "exit"
    /\ UNCHANGED <<k, fns, dims, significance, bands, p, subsets, registers,
                   reads, readError, pvarray, nwrites, pvargs, pvread,
                   i, ell, j, cmap, smap, fmap, bmap, outputs, pvvars>>

\* lines 177-198: three arguments and known options; the file list has kk
\* names, -d and -s are given or not
ParseArgs ==
    /\ pc = "args"
    /\ \E kk \in 1..MaxK :
          /\ k' = kk
          /\ fns' = InputFiles(kk)
          /\ pvarray' = ZeroArray(kk) /\ nwrites' = NoWrites(kk)
          /\ pvargs' = NoArgs(kk) /\ bmap' = ZeroLayers(kk)
    /\ dims' \in BOOLEAN
    /\ significance' \in Sigs
    /\ pc' = "open"
    /\ UNCHANGED <<rc, bands, p, subsets, registers, reads, readError, diag,
                   pvread, i, ell, j, cmap, smap, fmap, outputs, pvvars>>

\* lines 207-212: the first image opens and reports its band count
OpenFirst ==
    /\ pc = "open"
    /\ \E b \in BandCounts : bands' = b
    /\ reads' = reads + 1
    /\ pc' = IF dims THEN "register" ELSE "dimension"
    /\ UNCHANGED <<rc, k, fns, dims, significance, p, subsets, registers,
                   readError, diag, pvarray, nwrites, pvargs, pvread,
                   i, ell, j, cmap, smap, fmap, bmap, outputs, pvvars>>

\* lines 213-215: the first image cannot be read
OpenFirstFail ==
    /\ pc = "open"
    /\ reads' = reads + 1
    /\ readError' = TRUE
    /\ diag' = diag \cup {"Could not read file"}
    /\ rc' = 1
    /\ pc' = "exit"
    /\ UNCHANGED <<k, fns, dims, significance, bands, p, subsets, registers,
                   pvarray, nwrites, pvargs, pvread,
                   i, ell, j, cmap, smap, fmap, bmap, outputs, pvvars>>

\* lines 216-234 with the engines available: subset, then map_sync
RegisterParallel ==
    /\ pc = "register"
    /\ subsets' = subsets + 1
    /\ registers' = registers + (k - 1)
    /\ fns' = Registered(fns)
    /\ pc' = "dimension"
    /\ UNCHANGED <<rc, k, dims, significance, bands, p, reads, readError,
                   diag, pvarray, nwrites, pvargs, pvread,
                   i, ell, j, cmap, smap, fmap, bmap, outputs, pvvars>>

\* lines 216-234 when the parallel attempt raises, after the engines made m
\* of the k-1 register calls (m = 0 when Client() itself fails): the message,
\* then the sequential map over all of args1
RegisterSequential ==
    /\ pc = "register"
    /\ subsets' = subsets + 1
    /\ \E m \in 0..(k - 1) : registers' = registers + m + (k - 1)
    /\ fns' = Registered(fns)
    /\ diag' = diag \cup {"Failed, so running sequential co-registration"}
    /\ pc' = "dimension"
    /\ UNCHANGED <<rc, k, dims, significance, bands, p, reads, readError,
                   pvarray, nwrites, pvargs, pvread,
                   i, ell, j, cmap, smap, fmap, bmap, outputs, pvvars>>

\* lines 236-241, 245-255 with one image: np.memmap cannot map a file of
\* (k-1)*(k-1)*rows*cols = 0 elements and raises; nothing catches it
AllocateFail ==
    /\ pc = "dimension"
    /\ Dimension(bands) # 0
    /\ k = 1
    /\ p' = Dimension(bands)
    /\ rc' = 1
    /\ pc' = "exit"
    /\ UNCHANGED <<k, fns, dims, significance, bands, subsets, registers,
                   reads, readError, diag, pvarray, nwrites, pvargs, pvread,
                   i, ell, j, cmap, smap, fmap, bmap, outputs, pvvars>>

\* lines 236-241, 245-256: a supported band count; the array is allocated
DimensionOk ==
    /\ pc = "dimension"
    /\ Dimension(bands) # 0
    /\ k >= 2
    /\ p' = Dimension(bands)
    /\ pvarray' = ZeroArray(k)
    /\ i' = 0 /\ j' = 0
    /\ pc' = "populate"
    /\ UNCHANGED <<rc, k, fns, dims, significance, bands, subsets, registers,
                   reads, readError, diag, nwrites, pvargs, pvread,
                   ell, cmap, smap, fmap, bmap, outputs, pvvars>>

\* lines 242-244: any other band count: message, then return from main
DimensionBad ==
    /\ pc = "dimension"
    /\ Dimension(bands) = 0
    /\ diag' = diag \cup {"incorrect number of bands"}
    /\ rc' = 0
    /\ pc' = "exit"
    /\ UNCHANGED <<k, fns, dims, significance, bands, p, subsets, registers,
                   reads, readError, pvarray, nwrites, pvargs, pvread,
                   i, ell, j, cmap, smap, fmap, bmap, outputs, pvvars>>

\* lines 257-265 (and 266-273 after the last entry): one entry of the array
Populate ==
    /\ pc = "populate"
    /\ LET args == PySlice(fns, i, j + 2)
           nxt  == NextIdx(i, j, k)
       IN  /\ reads' = reads + Len(args)
           /\ \E pv \in [Pixels -> PVals] :
                 pvarray' = [pvarray EXCEPT ![i][j] = pv]
           /\ nwrites' = [nwrites EXCEPT ![i][j] = @ + 1]
           /\ pvargs' = [pvargs EXCEPT ![i][j] = args]
           /\ IF nxt[1] < k - 1
                 THEN /\ i' = nxt[1] /\ j' = nxt[2]
                      /\ UNCHANGED <<pc, ell, cmap, smap, fmap, bmap>>
                 ELSE /\ i' = nxt[1]
                      /\ cmap' = ZeroMap /\ smap' = ZeroMap /\ fmap' = ZeroMap
                      /\ bmap' = ZeroLayers(k)
                      /\ ell' = 0 /\ j' = 0
                      /\ pc' = "synth"
    /\ UNCHANGED <<rc, k, fns, dims, significance, bands, p, subsets,
                   registers, readError, diag, pvread, outputs, pvvars>>

\* variant: the read error is reported but the entry is computed all the same
PopulateReadFailIgnored ==
    /\ pc = "populate"
    /\ readError' = TRUE
    /\ diag' = diag \cup {"Could not read file"}
    /\ LET args == PySlice(fns, i, j + 2)
           nxt  == NextIdx(i, j, k)
       IN  /\ reads' = reads + Len(args)
           /\ \E pv \in [Pixels -> PVals] :
                 pvarray' = [pvarray EXCEPT ![i][j] = pv]
           /\ nwrites' = [nwrites EXCEPT ![i][j] = @ + 1]
           /\ pvargs' = [pvargs EXCEPT ![i][j] = args]
           /\ IF nxt[1] < k - 1
                 THEN /\ i' = nxt[1] /\ j' = nxt[2]
                      /\ UNCHANGED <<pc, ell, cmap, smap, fmap, bmap>>
                 ELSE /\ i' = nxt[1]
                      /\ cmap' = ZeroMap /\ smap' = ZeroMap /\ fmap' = ZeroMap
                      /\ bmap' = ZeroLayers(k)
                      /\ ell' = 0 /\ j' = 0
                      /\ pc' = "synth"
    /\ UNCHANGED <<rc, k, fns, dims, significance, bands, p, subsets,
                   registers, pvread, outputs, pvvars>>

\* lines 100-102 reached from line 261: the m-th file of the slice cannot
\* be read
PopulateReadFail ==
    /\ pc = "populate"
    /\ \E m \in 1..Len(PySlice(fns, i, j + 2)) : reads' = reads + m
    /\ readError' = TRUE
    /\ diag' = diag \cup {"Could not read file"}
    /\ rc' = 1
    /\ pc' = "exit"
    /\ UNCHANGED <<k, fns, dims, significance, bands, p, subsets, registers,
                   pvarray, nwrites, pvargs, pvread,
                   i, ell, j, cmap, smap, fmap, bmap, outputs, pvvars>>

\* lines 274-282: the loop body at (ell, j), then the loop counters
Synth ==
    /\ pc = "synth"
    /\ LET m   == SynthUpdate(Maps, pvarray[ell][j], significance, ell, j)
           nxt == NextIdx(ell, j, k)
       IN  /\ cmap' = m.cmap /\ smap' = m.smap
           /\ fmap' = m.fmap /\ bmap' = m.bmap
           /\ pvread' = pvread \cup {<<ell, j>>}
           /\ ell' = nxt[1] /\ j' = nxt[2]
           /\ pc' = IF nxt[1] < k - 1 THEN "synth" ELSE "write_cmap"
    /\ UNCHANGED <<rc, k, fns, dims, significance, bands, p, subsets,
                   registers, reads, readError, diag, pvarray, nwrites,
                   pvargs, i, outputs, pvvars>>

\* lines 284-302
WriteCmap ==
    /\ pc = "write_cmap"
    /\ outputs' = Append(outputs,
          [name |-> "cmap", data |-> [px \in Pixels |-> AsByte(cmap[px])]])
    /\ pc' = "write_fmap"
    /\ UNCHANGED <<rc, k, fns, dims, significance, bands, p, subsets,
                   registers, reads, readError, diag, pvarray, nwrites,
                   pvargs, pvread, i, ell, j, cmap, smap, fmap, bmap, pvvars>>

\* lines 303-312
WriteFmap ==
    /\ pc = "write_fmap"
    /\ outputs' = Append(outputs,
          [name |-> "fmap", data |-> [px \in Pixels |-> AsByte(fmap[px])]])
    /\ pc' = "write_bmap"
    /\ UNCHANGED <<rc, k, fns, dims, significance, bands, p, subsets,
                   registers, reads, readError, diag, pvarray, nwrites,
                   pvargs, pvread, i, ell, j, cmap, smap, fmap, bmap, pvvars>>

\* lines 313-323: band jj+1 takes bmap[:,:,jj]
WriteBmap ==
    /\ pc = "write_bmap"
    /\ outputs' = Append(outputs,
          [name |-> "bmap",
           data |-> [px \in Pixels |->
                       [jj \in Range(0, k - 1) |-> AsByte(bmap[px][jj])]]])
    /\ pc' = "write_smap"
    /\ UNCHANGED <<rc, k, fns, dims, significance, bands, p, subsets,
                   registers, reads, readError, diag, pvarray, nwrites,
                   pvargs, pvread, i, ell, j, cmap, smap, fmap, bmap, pvvars>>

\* lines 324-336, then main returns
WriteSmap ==
    /\ pc = "write_smap"
    /\ outputs' = Append(outputs,
          [name |-> "smap", data |-> [px \in Pixels |-> AsByte(smap[px])]])
    /\ rc' = 0
    /\ pc' = "exit"
    /\ UNCHANGED <<k, fns, dims, significance, bands, p, subsets,
                   registers, reads, readError, diag, pvarray, nwrites,
                   pvargs, pvread, i, ell, j, cmap, smap, fmap, bmap, pvvars>>

Next ==
    \/ Help \/ BadOption \/ BadArgCount \/ ParseArgs
    \/ OpenFirst \/ OpenFirstFail
    \/ RegisterParallel \/ RegisterSequential
    \/ DimensionOk \/ DimensionBad \/ AllocateFail
    \/ Populate \/ PopulateReadFail
    \/ Synth
    \/ WriteCmap \/ WriteFmap \/ WriteBmap \/ WriteSmap

Spec == Init /\ [][Next]_vars


\* ------------------------------------------------ the whole synthesis pass
\* lines 274-282 run from (l, jj) to the end of both loops on table pvarr
RECURSIVE SynthFrom(_, _, _, _, _, _)
SynthFrom(m, pvarr, sig, kk, l, jj) ==
    IF l >= kk - 1 THEN m
    ELSE LET nxt == NextIdx(l, jj, kk)
         IN  SynthFrom(SynthUpdate(m, pvarr[l][jj], sig, l, jj),
                       pvarr, sig, kk, nxt[1], nxt[2])

\* lines 266-282: the maps the pass leaves for table pvarr and threshold sig
FinalMaps(pvarr, sig, kk) ==
    SynthFrom([cmap |-> ZeroMap, smap |-> ZeroMap, fmap |-> ZeroMap,
               bmap |-> ZeroLayers(kk)], pvarr, sig, kk, 0, 0)

\* ---------------------------------------------------------------- vocabulary
Layers == Range(0, k - 1)
Entries == {e \in Layers \X Layers : e[1] <= e[2]}
\* the populate phase is over (line 266 reached on the normal path)
Populated ==
    pc \in {"synth", "write_cmap", "write_fmap", "write_bmap", "write_smap"}
    \/ (pc = "exit" /\ Len(outputs) > 0)
\* the array is complete and the synthesis pass has not started
SynthStart == pc = "synth" /\ ell = 0 /\ j = 0
\* the synthesis pass is over (line 283 reached)
Synthesised == Populated /\ pc # "synth"
\* layer jj of the bitemporal map holds 255 at px in the written raster
Marked(bm, px, jj) == AsByte(bm[px][jj]) = 255
MarkedLayers(bm, px) == {jj \in DOMAIN bm[px] : Marked(bm, px, jj)}
Min(S) == CHOOSE x \in S : \A y \in S : x <= y
Max(S) == CHOOSE x \in S : \A y \in S : x >= y
Acqs(f) == [n \in 1..Len(f) |-> f[n].acq]
Changed(m) == {px \in Pixels : m[px] # 0}


\* -------------------------------------------------------------------- PV()
\* complex128 values are pairs <<re, im>>
CAdd(x, y) == <<x[1] + y[1], x[2] + y[2]>>
CSub(x, y) == <<x[1] - y[1], x[2] - y[2]>>
CMul(x, y) == <<x[1] * y[1] - x[2] * y[2], x[1] * y[2] + x[2] * y[1]>>
\* np.conj
CConj(x) == <<x[1], 0 - x[2]>>
\* np.real
CReal(x) == x[1]

\* ---------------------------------------------------------------- float64
\* floor(log2(n)) and floor(log4(n)), n >= 1
RECURSIVE ILog2(_)
ILog2(n) == IF n < 2 THEN 0 ELSE 1 + ILog2(n \div 2)
RECURSIVE ILog4(_)
ILog4(n) == IF n < 4 THEN 0 ELSE 1 + ILog4(n \div 4)

\* integers of up to 56 bits are pairs <<hi, lo>> = hi * Limb + lo
Limb == 2^28
\* 4*x + d and 2*x + d
LShift2(x, d) == <<4 * x[1] + (4 * x[2] + d) \div Limb, (4 * x[2] + d) % Limb>>
LShift1(x, d) == <<2 * x[1] + (2 * x[2] + d) \div Limb, (2 * x[2] + d) % Limb>>
LGeq(x, y) == x[1] > y[1] \/ (x[1] = y[1] /\ x[2] >= y[2])
\* x - y, x >= y
LSub(x, y) ==
    IF x[2] >= y[2] THEN <<x[1] - y[1], x[2] - y[2]>>
    ELSE <<x[1] - y[1] - 1, x[2] + Limb - y[2]>>

\* binary square root of s, digit by digit: after step t (of 54) root is the
\* floor of sqrt(s) * 2^(t-h-1) and root^2 + rem = the t leading base-4
\* digits of s * 4^(53-h), where h = ILog4(s)
RECURSIVE SqrtDigits(_, _, _, _, _)
SqrtDigits(s, h, t, root, rem) ==
    IF t > 54 THEN [root |-> root, rem |-> rem]
    ELSE LET dgt == IF t <= h + 1 THEN (s \div 4^(h + 1 - t)) % 4 ELSE 0
             r4  == LShift2(rem, dgt)
             tr  == LShift2(root, 1)
         IN  IF LGeq(r4, tr)
                THEN SqrtDigits(s, h, t + 1, LShift1(root, 1), LSub(r4, tr))
                ELSE SqrtDigits(s, h, t + 1, LShift1(root, 0), r4)

\* d rounded to the nearest multiple of g, ties to the even multiple
RoundTo(d, g) ==
    LET m == (2 * d + g) \div (2 * g)
    IN  IF (2 * d + g) % (2 * g) = 0 /\ m % 2 = 1 THEN (m - 1) * g ELSE m * g

\* (hypot(re,im)**2 - s) * 2^52 for s = re^2 + im^2: the modulus is sqrt(s)
\* rounded to 53 bits, r; r*r is rounded again.  With R the 54-bit floor root,
\* r * 2^(52-h) is R/2 rounded, and r^2 - s = e / 4^(53-h) where e = -rem when
\* R is even and 2R + 1 - rem when R is odd.
Abs2Err(s) ==
    IF s = 0 THEN 0
    ELSE LET h   == ILog4(s)
             sq  == SqrtDigits(s, h, 1, <<0, 0>>, <<0, 0>>)
             odd == sq.root[2] % 2 = 1
         IN  IF sq.rem = <<0, 0>> /\ ~odd THEN 0
             ELSE LET mag == IF odd THEN LSub(LShift1(sq.root, 1), sq.rem)
                                    ELSE sq.rem
                      ex  == IF odd THEN ILog2(s) ELSE ILog2(s - 1)
                      \* r^2 - s in units of the grid 2^(ex-52) is
                      \* e / 2^sh; e = mag[1] * Limb + mag[2]
                      sh  == 54 - 2 * h + ex
                      m   == (mag[1] + 2^(sh - 29)) \div 2^(sh - 28)
                      tie == (mag[1] + 2^(sh - 29)) % 2^(sh - 28) = 0
                             /\ mag[2] = 0
                      mr  == IF tie /\ m % 2 = 1 THEN m - 1 ELSE m
                  IN  IF odd THEN mr * 2^ex ELSE 0 - mr * 2^ex

\* largest re^2 + im^2 of an element of a scaled sum within the bounds
LargestAbs2 ==
    LET n == CHOOSE x \in Looks : \A y \in Looks : y <= x
    IN  (n * MaxWeight) * (n * MaxWeight)
Abs2Table == [s \in 0..LargestAbs2 |-> Abs2Err(s)]

\* the float64 value of an integer below 2^53
FInt(n) == <<n, 0>>
\* round I + d * 2^-52 (|d| far below 2^52) to float64
FRound(x) ==
    LET neg == x[1] < 0 \/ (x[1] = 0 /\ x[2] < 0)
        I   == IF neg THEN 0 - x[1] ELSE x[1]
        d   == IF neg THEN 0 - x[2] ELSE x[2]
        ex  == IF d >= 0 THEN ILog2(I) ELSE ILog2(I - 1)
        r   == IF I = 0 \/ (I = 1 /\ d < 0) THEN d ELSE RoundTo(d, 2^ex)
    IN  IF neg THEN <<x[1], 0 - r>> ELSE <<x[1], r>>
\* x - y
FSub(x, y) == FRound(<<x[1] - y[1], x[2] - y[2]>>)
\* n * x for an integer-valued n
FMul(n, x) == FRound(<<n * x[1], n * x[2]>>)

\* abs(x)**2
CAbs2(x) ==
    <<x[1] * x[1] + x[2] * x[2], Abs2Table[x[1] * x[1] + x[2] * x[2]]>>
\* n*np.complex128(x)
CScale(n, x) == <<n * x[1], n * x[2]>>

\* sequences of length n over the naturals with sum at most w
RECURSIVE Vecs(_, _)
Vecs(n, w) ==
    IF n = 0 THEN {<< >>}
    ELSE UNION {{<<x>> \o v : v \in Vecs(n - 1, w - x)} : x \in 0..w}

\* what getmat returns for a 9-, 4- or 1-band file at one pixel; the elements
\* a band count does not supply are 0
Mat9(v) == [k1 |-> v[1], a1 |-> <<v[2], v[3]>>, rho1 |-> <<v[4], v[5]>>,
            xsi1 |-> v[6], b1 |-> <<v[7], v[8]>>, zeta1 |-> v[9]]
Mat4(v) == [k1 |-> v[1], a1 |-> <<v[2], v[3]>>, rho1 |-> <<0, 0>>,
            xsi1 |-> v[4], b1 |-> <<0, 0>>, zeta1 |-> 0]
Mat1(v) == [k1 |-> v[1], a1 |-> <<0, 0>>, rho1 |-> <<0, 0>>,
            xsi1 |-> 0, b1 |-> <<0, 0>>, zeta1 |-> 0]
\* lines 50-97: the results of weight at most w
getmat(b, w) ==
    IF b = 9 THEN {Mat9(v) : v \in Vecs(9, w)}
    ELSE IF b = 4 THEN {Mat4(v) : v \in Vecs(4, w)}
    ELSE {Mat1(v) : v \in Vecs(1, w)}
\* band count of a file of matrix dimension q
BandsOf(q) == IF q = 3 THEN 9 ELSE IF q = 2 THEN 4 ELSE 1

Weight(m) == m.k1 + m.a1[1] + m.a1[2] + m.rho1[1] + m.rho1[2] + m.xsi1
             + m.b1[1] + m.b1[2] + m.zeta1
ZeroMat == Mat1(<<0>>)
MatAdd(x, y) ==
    [k1 |-> x.k1 + y.k1, a1 |-> CAdd(x.a1, y.a1), rho1 |-> CAdd(x.rho1, y.rho1),
     xsi1 |-> x.xsi1 + y.xsi1, b1 |-> CAdd(x.b1, y.b1),
     zeta1 |-> x.zeta1 + y.zeta1]

\* k = 0.0; a = 0.0; rho = 0.0; xsi = 0.0; b = 0.0; zeta = 0.0
ZeroAcc == [k |-> 0, a |-> <<0, 0>>, rho |-> <<0, 0>>, xsi |-> 0,
            b |-> <<0, 0>>, zeta |-> 0]

\* lines 111-128: k1, a1, ... of this iteration, scaled by n
Scaled(q, n, m) ==
    IF q = 3 THEN
        [k1 |-> n * m.k1, a1 |-> CScale(n, m.a1), rho1 |-> CScale(n, m.rho1),
         xsi1 |-> n * m.xsi1, b1 |-> CScale(n, m.b1), zeta1 |-> n * m.zeta1]
    ELSE IF q = 2 THEN
        [k1 |-> n * m.k1, a1 |-> CScale(n, m.a1), rho1 |-> <<0, 0>>,
         xsi1 |-> n * m.xsi1, b1 |-> <<0, 0>>, zeta1 |-> 0]
    ELSE
        [k1 |-> n * m.k1, a1 |-> <<0, 0>>, rho1 |-> <<0, 0>>,
         xsi1 |-> 0, b1 |-> <<0, 0>>, zeta1 |-> 0]

\* k += k1; a += a1; ...
Accumulated(s, l) ==
    [k |-> s.k + l.k1, a |-> CAdd(s.a, l.a1), rho |-> CAdd(s.rho, l.rho1),
     xsi |-> s.xsi + l.xsi1, b |-> CAdd(s.b, l.b1), zeta |-> s.zeta + l.zeta1]

\* k -= k1; a -= a1; ...
LessLast(s, l) ==
    [k |-> s.k - l.k1, a |-> CSub(s.a, l.a1), rho |-> CSub(s.rho, l.rho1),
     xsi |-> s.xsi - l.xsi1, b |-> CSub(s.b, l.b1), zeta |-> s.zeta - l.zeta1]

\* the expression of lines 130, 132 and 133, evaluated left to right
Det3(kx, ax, rhox, xsix, bx, zetax) ==
    FSub(FSub(FSub(FInt(kx * xsix * zetax
                        + 2 * CReal(CMul(CMul(ax, bx), CConj(rhox)))),
                   FMul(xsix, CAbs2(rhox))),
              FMul(kx, CAbs2(bx))),
         FMul(zetax, CAbs2(ax)))
\* the expression of lines 135, 137 and 138
Det2(kx, ax, xsix) == FSub(FInt(kx * xsix), CAbs2(ax))

\* lines 129-143: detsumj, detsumj1, detj from the sums s and the last l
Determinants(q, s, l) ==
    LET s1 == LessLast(s, l)
    IN  IF q = 3 THEN
            [detsumj  |-> Det3(s.k, s.a, s.rho, s.xsi, s.b, s.zeta),
             detsumj1 |-> Det3(s1.k, s1.a, s1.rho, s1.xsi, s1.b, s1.zeta),
             detj     |-> Det3(l.k1, l.a1, l.rho1, l.xsi1, l.b1, l.zeta1)]
        ELSE IF q = 2 THEN
            [detsumj  |-> Det2(s.k, s.a, s.xsi),
             detsumj1 |-> Det2(s1.k, s1.a, s1.xsi),
             detj     |-> Det2(l.k1, l.a1, l.xsi1)]
        ELSE
            \* lines 140-143: detsumj = k binds detsumj to the array k itself
            \* and k -= k1 changes that array in place, so detsumj holds the
            \* reduced sum when line 144 reads it; detj = k1 is another array
            [detsumj |-> FInt(s1.k), detsumj1 |-> FInt(s1.k),
             detj |-> FInt(l.k1)]

\* PV is entered with a run of 1..MaxT files, a dimension and a look count
InitPV ==
    /\ pvpc = "loop"
    /\ pvp \in {1, 2, 3}
    /\ pvn \in Looks
    /\ todo \in 1..MaxT
    /\ acc = ZeroAcc /\ last = ZeroMat
    /\ rawprev = ZeroMat /\ rawlast = ZeroMat
    /\ dets = << >>
    /\ pc = "PV" /\ rc = 0 /\ k = 2 /\ fns = << >> /\ dims = FALSE
    /\ significance = 1 /\ bands = BandsOf(pvp) /\ p = pvp
    /\ subsets = 0 /\ registers = 0 /\ reads = 0 /\ readError = FALSE
    /\ diag = {} /\ pvarray = << >> /\ nwrites = << >> /\ pvargs = << >>
    /\ pvread = {} /\ i = 0 /\ ell = 0 /\ j = 0
    /\ cmap = << >> /\ smap = << >> /\ fmap = << >> /\ bmap = << >>
    /\ outputs = << >>

\* lines 109-128: one iteration of the loop over fns
Accumulate ==
    /\ pvpc = "loop" /\ todo > 0
    /\ \E m \in getmat(bands, MaxWeight - Weight(rawprev) - Weight(rawlast)) :
          /\ last' = Scaled(pvp, pvn, m)
          /\ acc' = Accumulated(acc, Scaled(pvp, pvn, m))
          /\ rawprev' = MatAdd(rawprev, rawlast)
          /\ rawlast' = m
    /\ todo' = todo - 1
    /\ UNCHANGED <<pvpc, pvp, pvn, dets, mainvars>>

\* lines 129-143: the loop is over; the three determinants
Dets ==
    /\ pvpc = "loop" /\ todo = 0
    /\ dets' = Determinants(pvp, acc, last)
    /\ acc' = LessLast(acc, last)
    /\ pvpc' = "done"
    /\ UNCHANGED <<pvp, pvn, todo, last, rawprev, rawlast, mainvars>>

NextPV == Accumulate \/ Dets

SpecPV == InitPV /\ [][NextPV]_vars

\* ------------------------------------------------- determinant, by expansion
\* the Hermitian matrix of elements k, a, rho, xsi, b, zeta (T11, T12, T13,
\* T22, T23, T33), rows and columns 1..3
Hermitian(m) ==
    <<  <<<<m.k1, 0>>, m.a1, m.rho1>>,
        <<CConj(m.a1), <<m.xsi1, 0>>, m.b1>>,
        <<CConj(m.rho1), CConj(m.b1), <<m.zeta1, 0>>>> >>
Drop(s, n) == [x \in 1..(Len(s) - 1) |-> IF x < n THEN s[x] ELSE s[x + 1]]
\* Laplace expansion along the first of the rows rs, over the columns cs
RECURSIVE CDet(_, _, _)
RECURSIVE CDetRow(_, _, _, _)
CDet(M, rs, cs) ==
    IF Len(rs) = 0 THEN <<1, 0>> ELSE CDetRow(M, rs, cs, Len(cs))
CDetRow(M, rs, cs, c) ==
    IF c = 0 THEN <<0, 0>>
    ELSE LET term == CMul(M[rs[1]][cs[c]], CDet(M, Tail(rs), Drop(cs, c)))
         IN  CAdd(CDetRow(M, rs, cs, c - 1),
                  IF c % 2 = 1 THEN term ELSE CSub(<<0, 0>>, term))
\* determinant of n times the leading q x q block of m
DetOfScaled(q, n, m) ==
    CDet(Hermitian(Scaled(q, n, m)), [x \in 1..q |-> x], [x \in 1..q |-> x])

\* ==================================================================== claims

\* C1 (as stated): after the synthesis pass smap is 0 exactly when cmap is 0,
\* and a non-zero smap is 1 + the lowest bitemporal layer marked for the pixel.
C1_FirstChange ==
    Synthesised =>
        \A px \in Pixels :
            /\ (smap[px] = 0) <=> (cmap[px] = 0)
            /\ smap[px] # 0 =>
                  /\ MarkedLayers(bmap, px) # {}
                  /\ smap[px] = 1 + Min(MarkedLayers(bmap, px))

\* C2 (as stated): an unsupported band count ends the process with a non-zero
\* status before any co-registration or subsetting call, any p-value entry
\* and any output raster.
C2_BadBandsFatal ==
    (pc = "exit" /\ bands \in BandCounts /\ Dimension(bands) = 0) =>
        /\ rc # 0
        /\ "incorrect number of bands" \in diag
        /\ subsets = 0 /\ registers = 0
        /\ \A e \in Layers \X Layers : nwrites[e[1]][e[2]] = 0
        /\ outputs = << >>

\* C3: for one table of p-values and thresholds s1 <= s2, every pixel that is
\* non-zero in cmap (smap, fmap) under s1 is non-zero under s2, so the count
\* of changed pixels never decreases; the maps the pass leaves in the program
\* are the ones of its own threshold.
C3_MapsMonotone ==
    /\ Synthesised => Maps = FinalMaps(pvarray, significance, k)
    /\ SynthStart =>
           \A s1, s2 \in Sigs :
              s1 <= s2 =>
                 LET m1 == FinalMaps(pvarray, s1, k)
                     m2 == FinalMaps(pvarray, s2, k)
                 IN  /\ Changed(m1.cmap) \subseteq Changed(m2.cmap)
                     /\ Changed(m1.smap) \subseteq Changed(m2.smap)
                     /\ Changed(m1.fmap) \subseteq Changed(m2.fmap)
                     /\ Cardinality(Changed(m1.cmap)) <= Cardinality(Changed(m2.cmap))
                     /\ Cardinality(Changed(m1.smap)) <= Cardinality(Changed(m2.smap))
                     /\ Cardinality(Changed(m1.fmap)) <= Cardinality(Changed(m2.fmap))

\* C3: the run used the larger threshold and detected a change that the smaller
\* threshold detects too, at a different boundary
C3_Witness ==
    /\ Synthesised /\ significance = 5
    /\ \E px \in Pixels :
          /\ cmap[px] # 0
          /\ FinalMaps(pvarray, 1, k).cmap[px] # 0
          /\ FinalMaps(pvarray, 1, k).cmap[px] # cmap[px]

\* C4 (as stated): for thresholds s1 <= s2 and every layer j, a pixel marked
\* 255 in bitemporal layer j under s1 is marked in layer j under s2.
C4_LayerMonotone ==
    SynthStart =>
        \A s1, s2 \in Sigs :
            s1 <= s2 =>
               \A px \in Pixels : \A jj \in Layers :
                  Marked(FinalMaps(pvarray, s1, k).bmap, px, jj)
                     => Marked(FinalMaps(pvarray, s2, k).bmap, px, jj)

\* C4 (amended): for thresholds s1 <= s2 and every layer j, a pixel marked in
\* some layer 0..j under s1 is marked in some layer 0..j under s2 (layer 0
\* alone is monotone, and so is the set of pixels with any mark).
C4_CumulativeLayerMonotone ==
    SynthStart =>
        \A s1, s2 \in Sigs :
            s1 <= s2 =>
               \A px \in Pixels : \A jj \in Layers :
                  (\E j1 \in 0..jj : Marked(FinalMaps(pvarray, s1, k).bmap, px, j1))
                     => (\E j2 \in 0..jj :
                            Marked(FinalMaps(pvarray, s2, k).bmap, px, j2))

\* C4: layer 1 is marked under the smaller threshold only; under the larger one
\* the pixel latched at layer 0
C4_Witness ==
    /\ SynthStart /\ k = 3
    /\ \E px \in Pixels :
          /\ Marked(FinalMaps(pvarray, 1, k).bmap, px, 1)
          /\ ~Marked(FinalMaps(pvarray, 5, k).bmap, px, 1)
          /\ Marked(FinalMaps(pvarray, 5, k).bmap, px, 0)

\* C5: with k = 2 the populate phase writes the one entry (0,0), and after the
\* pass cmap = smap at every pixel: 1 where pv(0,0) <= significance, else 0.
C5_TwoImages ==
    (k = 2 /\ Populated) =>
        /\ Entries = {<<0, 0>>}
        /\ DOMAIN pvarray = {0} /\ DOMAIN pvarray[0] = {0}
        /\ nwrites[0][0] = 1
        /\ Synthesised =>
              \A px \in Pixels :
                 /\ cmap[px] = smap[px]
                 /\ cmap[px] = IF pvarray[0][0][px] <= significance THEN 1 ELSE 0

\* C5: two images and a significant p-value at (0,0)
C5_Witness ==
    /\ k = 2 /\ Synthesised
    /\ \E px \in Pixels : cmap[px] = 1 /\ smap[px] = 1

\* C6: every entry (l,j), l <= j, is written exactly once with PV of the
\* acquisitions l..j+1 in order (j-l+2 of them, between 2 and k); no entry with
\* l > j is written; the synthesis pass starts when all are written, reads
\* only entries with l <= j and never writes the array.
C6_EntryProtocol ==
    \A l \in Layers : \A jj \in Layers :
        /\ nwrites[l][jj] <= 1
        /\ l > jj => nwrites[l][jj] = 0 /\ pvargs[l][jj] = << >>
        /\ nwrites[l][jj] = 1 =>
              /\ l <= jj
              /\ Acqs(pvargs[l][jj]) = [n \in 1..(jj - l + 2) |-> l + n - 1]
              /\ Len(pvargs[l][jj]) >= 2 /\ Len(pvargs[l][jj]) <= k
        /\ (Populated /\ l <= jj) => nwrites[l][jj] = 1
        /\ <<l, jj>> \in pvread => (l <= jj /\ Populated)

\* C6: the entry protocol holds in every state, and the array is assigned
\* only before the populate phase is over and before any entry is read.
C6_PopulateThenRead ==
    /\ [](C6_EntryProtocol)
    /\ [][(pvarray' # pvarray \/ nwrites' # nwrites)
             => (pvread = {} /\ pvread' = {} /\ ~Populated)]_vars

\* C6: three images with -d: all three entries written, then all three read
C6_Witness ==
    /\ k = 3 /\ dims /\ pc = "write_cmap"
    /\ pvread = {<<0, 0>>, <<0, 1>>, <<1, 1>>}
    /\ Len(pvargs[0][1]) = 3 /\ Len(pvargs[1][1]) = 2

\* C7: an unreadable input ends the process with a non-zero status and no
\* output raster; every input read precedes the first output write.
C7_NoOutputOnReadError ==
    /\ [](readError => (pc = "exit" /\ rc # 0 /\ outputs = << >>))
    /\ [][reads' # reads => (outputs = << >> /\ outputs' = << >>)]_vars

\* C7: the read fails while a later entry is populated
C7_Witness ==
    /\ readError /\ pc = "exit" /\ rc = 1
    /\ k >= 2 /\ nwrites[0][0] = 1 /\ outputs = << >>

\* C9: cmap never decreases and stays in 0..k-1; it changes only in a step
\* (ell,j) taken with cmap = ell, to j+1 > ell; layer j is marked exactly in
\* the step that sets cmap to j+1; at the end cmap is 0 if no layer is marked
\* and 1 + the highest marked layer otherwise.
C9_LatchState ==
    \A px \in Pixels :
        /\ cmap[px] \in 0..Max({k - 1, 0})
        /\ \A jj \in Layers :
              /\ AsByte(bmap[px][jj]) \in {0, 255}
              /\ Marked(bmap, px, jj) => cmap[px] >= jj + 1
        /\ Synthesised =>
              cmap[px] = IF MarkedLayers(bmap, px) = {} THEN 0
                         ELSE 1 + Max(MarkedLayers(bmap, px))

C9_LatchStep ==
    \A px \in Pixels :
        /\ cmap'[px] >= cmap[px]
        /\ cmap'[px] # cmap[px] =>
              /\ pc = "synth"
              /\ cmap[px] = ell
              /\ cmap'[px] = j + 1
              /\ j + 1 > ell
        /\ \A jj \in Layers :
              (Marked(bmap', px, jj) # Marked(bmap, px, jj))
                 <=> (cmap'[px] # cmap[px] /\ cmap'[px] = jj + 1)

\* C9: the latch invariant, in every state and every step
C9_Latch == [](C9_LatchState) /\ [][C9_LatchStep]_vars

\* C9: two successive latches: layer 0, then layer 1 from the new boundary
C9_Witness ==
    /\ Synthesised /\ k = 3
    /\ \E px \in Pixels :
          /\ cmap[px] = 2
          /\ Marked(bmap, px, 0) /\ Marked(bmap, px, 1)

\* C10: a pixel is hit at most once in an outer iteration ell (a hit needs
\* cmap = ell and leaves cmap > ell), fmap grows by one exactly when cmap
\* changes, and fmap is the number of marked layers, at most k-1.
C10_FreqState ==
    \A px \in Pixels :
        /\ fmap[px] = Cardinality(MarkedLayers(bmap, px))
        /\ fmap[px] <= Max({k - 1, 0})

C10_FreqStep ==
    \A px \in Pixels :
        /\ fmap'[px] \in {fmap[px], fmap[px] + 1}
        /\ (fmap'[px] = fmap[px] + 1) <=> (cmap'[px] # cmap[px])
        /\ fmap'[px] # fmap[px] =>
              (pc = "synth" /\ cmap[px] = ell /\ cmap'[px] > ell)
        /\ (pc = "synth" /\ cmap[px] # ell) => fmap'[px] = fmap[px]

\* C10: the frequency invariant, in every state and every step
C10_Frequency == [](C10_FreqState) /\ [][C10_FreqStep]_vars

\* C10: two hits, in outer iterations 0 and 1
C10_Witness ==
    /\ Synthesised /\ k = 3
    /\ \E px \in Pixels : fmap[px] = 2 /\ cmap[px] = 2


\* x is the float64 value of the real number c exactly
Exactly(x, c) == c[2] = 0 /\ x = <<c[1], 0>>

\* C8 (as stated): before NaN replacement and clamping, detsumj is the
\* determinant of n times the sum of all t matrices, detsumj1 the determinant
\* of n times the sum of the first t-1, and detj the determinant of n times
\* the t-th alone; for p=1 that is the scaled scalar, for p=2 it is
\* k*xsi - |a|^2, which is k*xsi when a = 0.
C8_Determinants ==
    pvpc = "done" =>
        LET all == MatAdd(rawprev, rawlast)
        IN  /\ Exactly(dets.detsumj, DetOfScaled(pvp, pvn, all))
            /\ Exactly(dets.detsumj1, DetOfScaled(pvp, pvn, rawprev))
            /\ Exactly(dets.detj, DetOfScaled(pvp, pvn, rawlast))
            /\ pvp = 1 => dets.detsumj = FInt(pvn * all.k1)
            /\ pvp = 2 =>
                  /\ dets.detsumj =
                        FInt((pvn * all.k1) * (pvn * all.xsi1)
                             - (pvn * all.a1[1]) * (pvn * all.a1[1])
                             - (pvn * all.a1[2]) * (pvn * all.a1[2]))
                  /\ all.a1 = <<0, 0>> =>
                        dets.detsumj = FInt((pvn * all.k1) * (pvn * all.xsi1))

====
